---- MODULE Spec2Model ----
(***************************************************************************)
(* The gitlab target manager of sparrow (pkg/sparrow/targets/gitlab.go):   *)
(* the Reconcile loop with its two timers, the done channel and the        *)
(* context, the RWMutex, and the operations refreshTargets,                *)
(* updateRegistration, Shutdown, GetTargets and Registered.                *)
(*                                                                         *)
(* Threads: "loop" runs Reconcile; "ext" is the owner calling Shutdown;    *)
(* "rd" is a consumer calling GetTargets and Registered; "test" calls the  *)
(* package-private operations refreshTargets and updateRegistration one    *)
(* after the other, as the package's unit tests do.                        *)
(***************************************************************************)
EXTENDS Integers, Sequences, FiniteSets, TLC

\* ------------------------------------------------------------------ bounds
\* Largest clock value and largest lastSeen of a record.
MaxTime == 2
\* Longest list FetchFiles returns to a directly called refreshTargets.
MaxRecords == 2
\* Longest list FetchFiles returns to the Reconcile loop.
LoopRecords == 1
\* Number of updateRegistration calls the test makes.
MaxCalls == 5
\* Number of times registrationTimer expires.
MaxLoopCalls == 2
\* Number of Shutdown calls the owner makes.
MaxShutdownCalls == 1
\* unhealthyThreshold, a constructor parameter, in clock ticks.
UnhealthyThreshold == 1
\* Number of times Reconcile is called on the instance.
MaxRuns == 2

\* ------------------------------------------------------- program constants
\* Capacity of the done channel: make(chan struct{}, 1).
DoneCap == 1

Threads == {"loop", "ext", "rd", "test"}
NoThread == "none"
\* The peers registered in the store, in the order the store lists their files.
PeerNames == <<"a", "b", "c", "d">>

\* The answers of FetchFiles with n records: one checks.GlobalTarget{Url,
\* LastSeen} per file, the i-th file being the i-th peer's, last seen at one of
\* `times`.
RECURSIVE ListsOfLen(_, _)
ListsOfLen(n, times) ==
  IF n = 0 THEN {<<>>}
  ELSE {Append(s, [url |-> PeerNames[((n - 1) % Len(PeerNames)) + 1], lastSeen |-> ls]) :
          s \in ListsOfLen(n - 1, times), ls \in times}

ListsUpTo(n, times) == UNION {ListsOfLen(k, times) : k \in 0..n}

\* What the store may answer to FetchFiles called by a test.
StoreLists == ListsUpTo(MaxRecords, 0..MaxTime)
\* What the store may answer to FetchFiles called by the Reconcile loop: the
\* peers were last seen at time 0.
LoopStoreLists == ListsUpTo(LoopRecords, {0})

VARIABLES
  pc,                \* position of each thread
  ctxDone,           \* ctx.Done() is closed
  done,              \* number of values buffered in t.done
  muW,               \* the thread holding t.mu exclusively, or NoThread
  muR,               \* the threads holding t.mu shared
  checkTimer,        \* "none" | "armed" | "fired" | "idle" | "stopped"
  registrationTimer, \* likewise
  targets,           \* t.targets
  registered,        \* t.registered
  now,               \* the clock read by time.Now()
  fetched,           \* refreshTargets: the part of `targets` still to filter
  healthyTargets,    \* refreshTargets: the local healthyTargets
  calls,             \* the calls PostFile/PutFile received, with their outcome
  lastErr,           \* the operation thread "test" called last, and its error
  extCalls,          \* Shutdown calls the owner has made
  loopShutdowns,     \* Shutdown calls the Reconcile loop has made
  answer,            \* refreshTargets: the local `targets` FetchFiles returned
  readAt,            \* refreshTargets: what time.Now() returned per record
  runs,              \* number of times the body of Reconcile has started
  shutdownReturned   \* some call of Shutdown has returned

vars == <<pc, ctxDone, done, muW, muR, checkTimer, registrationTimer, targets,
          registered, now, fetched, healthyTargets, calls, lastErr, extCalls,
          loopShutdowns, answer, readAt, runs, shutdownReturned>>

\* ------------------------------------------------------------- sync.RWMutex
\* Positions where a thread is inside mu.Lock().
LockPcs == {"rt_lock", "ur_put_lock", "ur_post_lock", "sd_lock"}
\* Mutant of CanLock: mu.Lock() returns although the lock is held.
CanLockAlways == TRUE

\* mu.Lock() returns when nobody holds the lock.
CanLock == muW = NoThread /\ muR = {}
\* Mutant of CanRLock: mu.RLock() returns although a writer holds the lock.
CanRLockAlways == TRUE

\* mu.RLock() returns when no writer holds the lock and none is waiting for it.
CanRLock == muW = NoThread /\ \A t \in Threads : pc[t] \notin LockPcs

\* Where a thread continues after an operation returned.
ReturnPc(t) == IF t = "loop" THEN "select" ELSE "idle"

\* NewGitlabManager
Init ==
  /\ pc = [t \in Threads |-> IF t = "loop" THEN "start" ELSE "idle"]
  /\ ctxDone = FALSE
  /\ done = 0
  /\ muW = NoThread
  /\ muR = {}
  /\ checkTimer = "none"
  /\ registrationTimer = "none"
  /\ targets = <<>>
  /\ registered = FALSE
  /\ now = 0
  /\ fetched = <<>>
  /\ healthyTargets = <<>>
  /\ calls = <<>>
  /\ lastErr = [op |-> "none", err |-> FALSE]
  /\ extCalls = 0
  /\ loopShutdowns = 0
  /\ answer = <<>>
  /\ readAt = <<>>
  /\ runs = 0
  /\ shutdownReturned = FALSE

\* ---------------------------------------------------------------- helpers
\* Mutant of Unhealthy: a record exactly unhealthyThreshold old is skipped too.
UnhealthyAtBoundary(t, target) == t - UnhealthyThreshold >= target.lastSeen

\* time.Now().Add(-t.unhealthyThreshold).After(target.LastSeen)
Unhealthy(t, target) == t - UnhealthyThreshold > target.lastSeen

\* Reconcile after refreshTargets returned: `continue` on an error, else
\* checkTimer.Reset(t.checkInterval).
CheckTimerAfterRefresh(t, err) ==
  IF t = "loop" /\ ~err THEN "armed" ELSE checkTimer

\* Reconcile after updateRegistration returned: `continue` on an error, else
\* registrationTimer.Reset(t.registrationInterval).
RegistrationTimerAfterUpdate(t, err) ==
  IF t = "loop" /\ ~err THEN "armed" ELSE registrationTimer

\* What the test sees when operation op returns (err: with an error); the
\* Reconcile loop only logs the error.
ErrAfter(t, op, err) ==
  IF t = "test" THEN [op |-> op, err |-> err] ELSE lastErr

\* ------------------------------------------------------------ environment
\* The clock advances.
Tick ==
  /\ now < MaxTime
  /\ now' = now + 1
  /\ UNCHANGED <<pc, ctxDone, done, muW, muR, checkTimer, registrationTimer,
                 targets, registered, fetched, healthyTargets, calls, lastErr,
                 extCalls, shutdownReturned>>
  /\ UNCHANGED <<loopShutdowns, answer, readAt, runs>>

\* The context passed to Reconcile is cancelled.
Cancel ==
  /\ ~ctxDone
  /\ ctxDone' = TRUE
  /\ UNCHANGED <<pc, done, muW, muR, checkTimer, registrationTimer, targets,
                 registered, now, fetched, healthyTargets, calls, lastErr,
                 extCalls, shutdownReturned>>
  /\ UNCHANGED <<loopShutdowns, answer, readAt, runs>>

\* checkTimer expires: a value is ready on checkTimer.C.
CheckTimerFire ==
  /\ checkTimer = "armed"
  /\ checkTimer' = "fired"
  /\ UNCHANGED <<pc, ctxDone, done, muW, muR, registrationTimer, targets,
                 registered, now, fetched, healthyTargets, calls, lastErr,
                 extCalls, shutdownReturned>>
  /\ UNCHANGED <<loopShutdowns, answer, readAt, runs>>

\* registrationTimer expires: a value is ready on registrationTimer.C.
RegistrationTimerFire ==
  /\ registrationTimer = "armed"
  /\ Len(calls) < MaxLoopCalls
  /\ registrationTimer' = "fired"
  /\ UNCHANGED <<pc, ctxDone, done, muW, muR, checkTimer, targets,
                 registered, now, fetched, healthyTargets, calls, lastErr,
                 extCalls, shutdownReturned>>
  /\ UNCHANGED <<loopShutdowns, answer, readAt, runs>>

\* ----------------------------------------------------------------- Reconcile
\* Reconcile is called: both timers are created.
Reconcile ==
  /\ pc["loop"] = "start"
  /\ pc' = [pc EXCEPT !["loop"] = "select"]
  /\ checkTimer' = "armed"
  /\ registrationTimer' = "armed"
  /\ runs' = runs + 1
  /\ UNCHANGED <<ctxDone, done, muW, muR, targets, registered, now, fetched,
                 healthyTargets, calls, lastErr, extCalls, shutdownReturned>>
  /\ UNCHANGED <<loopShutdowns, answer, readAt>>

\* Reconcile has returned and is called again on the same instance, with the
\* same context or another one, cancelled or not.
ReconcileAgain ==
  /\ pc["loop"] = "returned"
  /\ runs < MaxRuns
  /\ pc' = [pc EXCEPT !["loop"] = "start"]
  /\ ctxDone' \in BOOLEAN
  /\ UNCHANGED <<done, muW, muR, checkTimer, registrationTimer, targets,
                 registered, now, fetched, healthyTargets, calls, lastErr,
                 extCalls, shutdownReturned>>
  /\ UNCHANGED <<loopShutdowns, answer, readAt, runs>>

\* case <-ctx.Done(): ctx.Err() is non-nil, Shutdown is called.
LoopCtxDone ==
  /\ pc["loop"] = "select"
  /\ ctxDone
  /\ pc' = [pc EXCEPT !["loop"] = "sd_lock"]
  /\ loopShutdowns' = loopShutdowns + 1
  /\ UNCHANGED <<ctxDone, done, muW, muR, checkTimer, registrationTimer,
                 targets, registered, now, fetched, healthyTargets, calls,
                 lastErr, extCalls, shutdownReturned>>
  /\ UNCHANGED <<answer, readAt, runs>>

\* case <-t.done: return; the deferred Stop of both timers runs.
LoopDone ==
  /\ pc["loop"] = "select"
  /\ done > 0
  /\ done' = done - 1
  /\ pc' = [pc EXCEPT !["loop"] = "returned"]
  /\ checkTimer' = "stopped"
  /\ registrationTimer' = "stopped"
  /\ UNCHANGED <<ctxDone, muW, muR, targets, registered, now, fetched,
                 healthyTargets, calls, lastErr, extCalls, shutdownReturned>>
  /\ UNCHANGED <<loopShutdowns, answer, readAt, runs>>

\* case <-checkTimer.C: refreshTargets is called.
LoopCheckTimer ==
  /\ pc["loop"] = "select"
  /\ checkTimer = "fired"
  /\ checkTimer' = "idle"
  /\ pc' = [pc EXCEPT !["loop"] = "rt_lock"]
  /\ UNCHANGED <<ctxDone, done, muW, muR, registrationTimer, targets,
                 registered, now, fetched, healthyTargets, calls, lastErr,
                 extCalls, shutdownReturned>>
  /\ UNCHANGED <<loopShutdowns, answer, readAt, runs>>

\* case <-registrationTimer.C: updateRegistration is called.
LoopRegistrationTimer ==
  /\ pc["loop"] = "select"
  /\ registrationTimer = "fired"
  /\ registrationTimer' = "idle"
  /\ pc' = [pc EXCEPT !["loop"] = "ur_entry"]
  /\ UNCHANGED <<ctxDone, done, muW, muR, checkTimer, targets, registered,
                 now, fetched, healthyTargets, calls, lastErr, extCalls,
                 shutdownReturned>>
  /\ UNCHANGED <<loopShutdowns, answer, readAt, runs>>

\* ------------------------------------------------------------ refreshTargets
\* Mutant of RefreshLock: the new list is built on top of the current one.
RefreshLockAppends(t) ==
  /\ pc[t] = "rt_lock"
  /\ CanLock
  /\ muW' = t
  /\ healthyTargets' = targets
  /\ pc' = [pc EXCEPT ![t] = "rt_fetch"]
  /\ UNCHANGED <<ctxDone, done, muR, checkTimer, registrationTimer, targets,
                 registered, now, fetched, calls, lastErr, extCalls,
                 shutdownReturned>>
  /\ UNCHANGED <<loopShutdowns, answer, readAt, runs>>

\* t.mu.Lock(); var healthyTargets; FetchFiles is called.
RefreshLock(t) ==
  /\ pc[t] = "rt_lock"
  /\ CanLock
  /\ muW' = t
  /\ healthyTargets' = <<>>
  /\ pc' = [pc EXCEPT ![t] = "rt_fetch"]
  /\ UNCHANGED <<ctxDone, done, muR, checkTimer, registrationTimer, targets,
                 registered, now, fetched, calls, lastErr, extCalls,
                 shutdownReturned>>
  /\ UNCHANGED <<loopShutdowns, answer, readAt, runs>>

\* Mutant of FetchFilesErr: the failed refresh stores the empty local list.
FetchFilesErrClears(t) ==
  /\ pc[t] = "rt_fetch"
  /\ targets' = healthyTargets
  /\ muW' = NoThread
  /\ pc' = [pc EXCEPT ![t] = ReturnPc(t)]
  /\ checkTimer' = CheckTimerAfterRefresh(t, TRUE)
  /\ lastErr' = ErrAfter(t, "refreshTargets", TRUE)
  /\ UNCHANGED <<ctxDone, done, muR, registrationTimer, registered, now,
                 fetched, healthyTargets, calls, extCalls, shutdownReturned>>
  /\ UNCHANGED <<loopShutdowns, answer, readAt, runs>>

\* Mutant of FetchFilesErr: the loop gives up on the error, its deferred Stop
\* of both timers runs.
FetchFilesErrReturns(t) ==
  /\ pc[t] = "rt_fetch"
  /\ muW' = NoThread
  /\ pc' = [pc EXCEPT ![t] = IF t = "loop" THEN "returned" ELSE "idle"]
  /\ checkTimer' = IF t = "loop" THEN "stopped" ELSE checkTimer
  /\ registrationTimer' = IF t = "loop" THEN "stopped" ELSE registrationTimer
  /\ lastErr' = ErrAfter(t, "refreshTargets", TRUE)
  /\ UNCHANGED <<ctxDone, done, muR, targets, registered, now, fetched,
                 healthyTargets, calls, extCalls, shutdownReturned>>
  /\ UNCHANGED <<loopShutdowns, answer, readAt, runs>>

\* FetchFiles returns an error: return err, the deferred Unlock runs.
FetchFilesErr(t) ==
  /\ pc[t] = "rt_fetch"
  /\ muW' = NoThread
  /\ pc' = [pc EXCEPT ![t] = ReturnPc(t)]
  /\ checkTimer' = CheckTimerAfterRefresh(t, TRUE)
  /\ lastErr' = ErrAfter(t, "refreshTargets", TRUE)
  /\ UNCHANGED <<ctxDone, done, muR, registrationTimer, targets, registered,
                 now, fetched, healthyTargets, calls, extCalls,
                 shutdownReturned>>
  /\ UNCHANGED <<loopShutdowns, answer, readAt, runs>>

\* FetchFiles returns one of `lists`.
FetchFilesOk(t, lists) ==
  /\ pc[t] = "rt_fetch"
  /\ \E l \in lists : fetched' = l /\ answer' = l
  /\ pc' = [pc EXCEPT ![t] = "rt_filter"]
  /\ UNCHANGED <<ctxDone, done, muW, muR, checkTimer, registrationTimer,
                 targets, registered, now, healthyTargets, calls, lastErr,
                 extCalls, shutdownReturned>>
  /\ UNCHANGED <<loopShutdowns, readAt, runs>>

\* One iteration of `for _, target := range targets`: time.Now() is read for
\* the record.
RefreshFilter(t) ==
  /\ pc[t] = "rt_filter"
  /\ fetched # <<>>
  /\ healthyTargets' = IF Unhealthy(now, Head(fetched))
                       THEN healthyTargets
                       ELSE Append(healthyTargets, Head(fetched))
  /\ fetched' = Tail(fetched)
  /\ readAt' = Append(readAt, now)
  /\ UNCHANGED <<pc, ctxDone, done, muW, muR, checkTimer, registrationTimer,
                 targets, registered, now, calls, lastErr, extCalls,
                 shutdownReturned>>
  /\ UNCHANGED <<loopShutdowns, answer, runs>>

\* t.targets = healthyTargets; return nil, the deferred Unlock runs and the
\* locals are gone.
RefreshStore(t) ==
  /\ pc[t] = "rt_filter"
  /\ fetched = <<>>
  /\ targets' = healthyTargets
  /\ healthyTargets' = <<>>
  /\ answer' = <<>>
  /\ readAt' = <<>>
  /\ muW' = NoThread
  /\ pc' = [pc EXCEPT ![t] = ReturnPc(t)]
  /\ checkTimer' = CheckTimerAfterRefresh(t, FALSE)
  /\ lastErr' = ErrAfter(t, "refreshTargets", FALSE)
  /\ UNCHANGED <<ctxDone, done, muR, registrationTimer, registered, now,
                 fetched, calls, extCalls, shutdownReturned>>
  /\ UNCHANGED <<loopShutdowns, runs>>

\* -------------------------------------------------------- updateRegistration
\* The logger is built with the field "registered", t.registered: read
\* without the lock (the value goes to the log only).
UpdateRegistrationEntry(t) ==
  /\ pc[t] = "ur_entry"
  /\ pc' = [pc EXCEPT ![t] = "ur_registered"]
  /\ UNCHANGED <<ctxDone, done, muW, muR, checkTimer, registrationTimer,
                 targets, registered, now, fetched, healthyTargets, calls,
                 lastErr, extCalls, shutdownReturned>>
  /\ UNCHANGED <<loopShutdowns, answer, readAt, runs>>

\* if t.Registered(): RLock, read registered, RUnlock; then the branch taken
\* is inside mu.Lock().
UpdateRegistrationBranch(t) ==
  /\ pc[t] = "ur_registered"
  /\ CanRLock
  /\ pc' = [pc EXCEPT ![t] = IF registered THEN "ur_put_lock" ELSE "ur_post_lock"]
  /\ UNCHANGED <<ctxDone, done, muW, muR, checkTimer, registrationTimer,
                 targets, registered, now, fetched, healthyTargets, calls,
                 lastErr, extCalls, shutdownReturned>>
  /\ UNCHANGED <<loopShutdowns, answer, readAt, runs>>

\* t.mu.Lock() of the update branch; PutFile ("Updated registration") is called.
UpdateLock(t) ==
  /\ pc[t] = "ur_put_lock"
  /\ CanLock
  /\ muW' = t
  /\ pc' = [pc EXCEPT ![t] = "ur_put"]
  /\ UNCHANGED <<ctxDone, done, muR, checkTimer, registrationTimer, targets,
                 registered, now, fetched, healthyTargets, calls, lastErr,
                 extCalls, shutdownReturned>>
  /\ UNCHANGED <<loopShutdowns, answer, readAt, runs>>

\* t.mu.Lock() of the create branch; PostFile ("Initial registration") is called.
CreateLock(t) ==
  /\ pc[t] = "ur_post_lock"
  /\ CanLock
  /\ muW' = t
  /\ pc' = [pc EXCEPT ![t] = "ur_post"]
  /\ UNCHANGED <<ctxDone, done, muR, checkTimer, registrationTimer, targets,
                 registered, now, fetched, healthyTargets, calls, lastErr,
                 extCalls, shutdownReturned>>
  /\ UNCHANGED <<loopShutdowns, answer, readAt, runs>>

\* Mutant of RegisteredAfterPost: a successful create is not remembered.
RegisteredAfterPostForgets(err) == registered

\* Mutant of RegisteredAfterPost: a failed create is remembered as a success.
RegisteredAfterPostAlways(err) == TRUE

\* t.registered after PostFile returned: set only when err is nil.
RegisteredAfterPost(err) == IF err THEN registered ELSE TRUE

\* t.registered after PutFile returned: never written.
RegisteredAfterPut(err) == registered

\* PutFile returns (err: with an error); return, the deferred Unlock runs.
PutFileReturn(t, err) ==
  /\ pc[t] = "ur_put"
  /\ calls' = Append(calls, [op |-> "PutFile", err |-> err])
  /\ registered' = RegisteredAfterPut(err)
  /\ muW' = NoThread
  /\ pc' = [pc EXCEPT ![t] = ReturnPc(t)]
  /\ registrationTimer' = RegistrationTimerAfterUpdate(t, err)
  /\ lastErr' = ErrAfter(t, "updateRegistration", err)
  /\ UNCHANGED <<ctxDone, done, muR, checkTimer, targets, now, fetched,
                 healthyTargets, extCalls, shutdownReturned>>
  /\ UNCHANGED <<loopShutdowns, answer, readAt, runs>>

\* PostFile returns (err: with an error); t.registered = true on success;
\* return, the deferred Unlock runs.
PostFileReturn(t, err) ==
  /\ pc[t] = "ur_post"
  /\ calls' = Append(calls, [op |-> "PostFile", err |-> err])
  /\ registered' = RegisteredAfterPost(err)
  /\ muW' = NoThread
  /\ pc' = [pc EXCEPT ![t] = ReturnPc(t)]
  /\ registrationTimer' = RegistrationTimerAfterUpdate(t, err)
  /\ lastErr' = ErrAfter(t, "updateRegistration", err)
  /\ UNCHANGED <<ctxDone, done, muR, checkTimer, targets, now, fetched,
                 healthyTargets, extCalls, shutdownReturned>>
  /\ UNCHANGED <<loopShutdowns, answer, readAt, runs>>

\* ------------------------------------------------------------------ Shutdown
\* The owner calls Shutdown.
ShutdownCall ==
  /\ pc["ext"] = "idle"
  /\ extCalls < MaxShutdownCalls
  /\ extCalls' = extCalls + 1
  /\ pc' = [pc EXCEPT !["ext"] = "sd_lock"]
  /\ UNCHANGED <<ctxDone, done, muW, muR, checkTimer, registrationTimer,
                 targets, registered, now, fetched, healthyTargets, calls,
                 lastErr, shutdownReturned>>
  /\ UNCHANGED <<loopShutdowns, answer, readAt, runs>>

\* t.mu.Lock(); t.registered = false.
ShutdownLock(t) ==
  /\ pc[t] = "sd_lock"
  /\ CanLock
  /\ muW' = t
  /\ registered' = FALSE
  /\ pc' = [pc EXCEPT ![t] = "sd_send"]
  /\ UNCHANGED <<ctxDone, done, muR, checkTimer, registrationTimer, targets,
                 now, fetched, healthyTargets, calls, lastErr, extCalls,
                 shutdownReturned>>
  /\ UNCHANGED <<loopShutdowns, answer, readAt, runs>>

\* Mutant of ShutdownSend: Shutdown returns without signalling the loop.
ShutdownSendNoSignal(t) ==
  /\ pc[t] = "sd_send"
  /\ muW' = NoThread
  /\ pc' = [pc EXCEPT ![t] = ReturnPc(t)]
  /\ shutdownReturned' = TRUE
  /\ UNCHANGED <<ctxDone, done, muR, checkTimer, registrationTimer, targets,
                 registered, now, fetched, healthyTargets, calls, lastErr,
                 extCalls>>
  /\ UNCHANGED <<loopShutdowns, answer, readAt, runs>>

\* t.done <- struct{}{} when the channel has room; return nil, the deferred
\* Unlock runs.
ShutdownSend(t) ==
  /\ pc[t] = "sd_send"
  /\ done < DoneCap
  /\ done' = done + 1
  /\ muW' = NoThread
  /\ pc' = [pc EXCEPT ![t] = ReturnPc(t)]
  /\ shutdownReturned' = TRUE
  /\ UNCHANGED <<ctxDone, muR, checkTimer, registrationTimer, targets,
                 registered, now, fetched, healthyTargets, calls, lastErr,
                 extCalls>>
  /\ UNCHANGED <<loopShutdowns, answer, readAt, runs>>

\* ------------------------------------------------- GetTargets and Registered
\* A consumer calls GetTargets (op = "gt") or Registered (op = "rg"): it is
\* inside mu.RLock().
ReadCall(r, op) ==
  /\ pc[r] = "idle"
  /\ pc' = [pc EXCEPT ![r] = IF op = "gt" THEN "gt_rlock" ELSE "rg_rlock"]
  /\ UNCHANGED <<ctxDone, done, muW, muR, checkTimer, registrationTimer,
                 targets, registered, now, fetched, healthyTargets, calls,
                 lastErr, extCalls, shutdownReturned>>
  /\ UNCHANGED <<loopShutdowns, answer, readAt, runs>>

\* t.mu.RLock() returns.
ReadRLock(r) ==
  /\ pc[r] \in {"gt_rlock", "rg_rlock"}
  /\ CanRLock
  /\ muR' = muR \cup {r}
  /\ pc' = [pc EXCEPT ![r] = IF pc[r] = "gt_rlock" THEN "gt_read" ELSE "rg_read"]
  /\ UNCHANGED <<ctxDone, done, muW, checkTimer, registrationTimer, targets,
                 registered, now, fetched, healthyTargets, calls, lastErr,
                 extCalls, shutdownReturned>>
  /\ UNCHANGED <<loopShutdowns, answer, readAt, runs>>

\* return t.targets (or t.registered); the deferred RUnlock runs.
ReadReturn(r) ==
  /\ pc[r] \in {"gt_read", "rg_read"}
  /\ muR' = muR \ {r}
  /\ pc' = [pc EXCEPT ![r] = "idle"]
  /\ UNCHANGED <<ctxDone, done, muW, checkTimer, registrationTimer, targets,
                 registered, now, fetched, healthyTargets, calls, lastErr,
                 extCalls, shutdownReturned>>
  /\ UNCHANGED <<loopShutdowns, answer, readAt, runs>>

\* --------------------------------------------------------------- test thread
\* The test calls refreshTargets.
TestRefresh ==
  /\ pc["test"] = "idle"
  /\ pc' = [pc EXCEPT !["test"] = "rt_lock"]
  /\ UNCHANGED <<ctxDone, done, muW, muR, checkTimer, registrationTimer,
                 targets, registered, now, fetched, healthyTargets, calls,
                 lastErr, extCalls, shutdownReturned>>
  /\ UNCHANGED <<loopShutdowns, answer, readAt, runs>>

\* The test calls updateRegistration.
TestUpdateRegistration ==
  /\ pc["test"] = "idle"
  /\ Len(calls) < MaxCalls
  /\ pc' = [pc EXCEPT !["test"] = "ur_entry"]
  /\ UNCHANGED <<ctxDone, done, muW, muR, checkTimer, registrationTimer,
                 targets, registered, now, fetched, healthyTargets, calls,
                 lastErr, extCalls, shutdownReturned>>
  /\ UNCHANGED <<loopShutdowns, answer, readAt, runs>>

\* ------------------------------------------------------------ specifications
\* The running instance: the loop, the owner and a consumer.
LoopNext ==
  \/ Reconcile
  \/ LoopCtxDone
  \/ LoopDone
  \/ LoopCheckTimer
  \/ LoopRegistrationTimer
  \/ RefreshLock("loop")
  \/ FetchFilesErr("loop")
  \/ FetchFilesOk("loop", LoopStoreLists)
  \/ RefreshFilter("loop")
  \/ RefreshStore("loop")
  \/ UpdateRegistrationEntry("loop")
  \/ UpdateRegistrationBranch("loop")
  \/ UpdateLock("loop")
  \/ CreateLock("loop")
  \/ \E err \in BOOLEAN : PutFileReturn("loop", err)
  \/ \E err \in BOOLEAN : PostFileReturn("loop", err)
  \/ ShutdownLock("loop")
  \/ ShutdownSend("loop")

Next ==
  \/ LoopNext
  \/ Tick
  \/ Cancel
  \/ CheckTimerFire
  \/ RegistrationTimerFire
  \/ ShutdownCall
  \/ ShutdownLock("ext")
  \/ ShutdownSend("ext")
  \/ \E op \in {"gt", "rg"} : ReadCall("rd", op)
  \/ ReadRLock("rd")
  \/ ReadReturn("rd")

Spec == Init /\ [][Next]_vars

\* refreshTargets called again and again by a test, with the clock advancing.
RefreshNext ==
  \/ Tick
  \/ TestRefresh
  \/ RefreshLock("test")
  \/ FetchFilesErr("test")
  \/ FetchFilesOk("test", StoreLists)
  \/ RefreshFilter("test")
  \/ RefreshStore("test")

RefreshSpec == Init /\ [][RefreshNext]_vars

\* updateRegistration called again and again by a test.
RegistrationNext ==
  \/ TestUpdateRegistration
  \/ UpdateRegistrationEntry("test")
  \/ UpdateRegistrationBranch("test")
  \/ UpdateLock("test")
  \/ CreateLock("test")
  \/ \E err \in BOOLEAN : PutFileReturn("test", err)
  \/ \E err \in BOOLEAN : PostFileReturn("test", err)

RegistrationSpec == Init /\ [][RegistrationNext]_vars

\* The loop and a second caller of refreshTargets on the same instance (the
\* package's own code and tests may call it while the loop runs).
CallersNext ==
  \/ LoopNext
  \/ Cancel
  \/ CheckTimerFire
  \/ RegistrationTimerFire
  \/ TestRefresh
  \/ RefreshLock("test")
  \/ FetchFilesErr("test")
  \/ FetchFilesOk("test", LoopStoreLists)
  \/ RefreshFilter("test")
  \/ RefreshStore("test")

CallersSpec == Init /\ [][CallersNext]_vars

\* The loop, cancelled and ended by its own Shutdown, and an owner that calls
\* Reconcile again on the instance.
RestartNext ==
  \/ LoopNext
  \/ Cancel
  \/ CheckTimerFire
  \/ RegistrationTimerFire
  \/ ReconcileAgain

RestartSpec == Init /\ [][RestartNext]_vars

\* What the Go runtime and the remote store guarantee: a running thread takes
\* its next step, remote calls return, mu.Lock() and mu.RLock() return once
\* the lock is free (a waiting writer keeps new readers out, so the lock
\* stays free for it), the select picks a case that is ready again and again
\* (it chooses at random among the ready cases), and sync.Mutex hands the
\* lock to a writer that finds it taken again and again (starvation mode).
\* Nothing is assumed of the environment: timers, the clock, cancellation
\* and the callers may stop at any time.
Fairness ==
  /\ WF_vars(LoopNext /\ pc["loop"] # "select")
  /\ SF_vars(LoopDone)
  /\ SF_vars(LoopCtxDone)
  /\ SF_vars(ShutdownLock("ext") \/ ShutdownSend("ext"))
  /\ WF_vars(ReadReturn("rd"))

FairSpec == Init /\ [][Next]_vars /\ Fairness

\* The Reconcile goroutine is scheduled: when it can take a step it takes one.
\* A select with a ready case picks one; which one is not assumed.
TriggerFairSpec == Init /\ [][Next]_vars /\ WF_vars(LoopNext)

\* ===================================================================== claims
\* Positions where a remote-store call is in flight.
RemotePcs == {"rt_fetch", "ur_put", "ur_post"}
\* Positions where a consumer is inside mu.RLock().
RLockPcs == {"gt_rlock", "rg_rlock"}
\* The calls of the store that succeeded, in order.
Succeeded == SelectSeq(calls, LAMBDA c : ~c.err)

\* C1: when refreshTargets called by the loop fails, the loop rearms
\* checkTimer as it does after a success (so the refresh trigger fires again).
C1_FailedRefreshRearms ==
  [][(pc["loop"] = "rt_fetch" /\ pc'["loop"] = "select")
       => checkTimer' = "armed"]_vars

\* C2: when the create-style publish (PostFile) of the loop's registration
\* fails, the loop rearms registrationTimer as it does after a success (so the
\* registration is retried).
C2_FailedCreateRearms ==
  [][(pc["loop"] = "ur_post" /\ pc'["loop"] = "select")
       => registrationTimer' = "armed"]_vars

\* C3: once the context is cancelled while the loop runs, Reconcile
\* eventually returns.
C3_CancelEndsLoop ==
  (ctxDone /\ pc["loop"] # "start") ~> (pc["loop"] = "returned")

\* C4: after a single call of Shutdown by the owner has returned, with the
\* context not cancelled, Reconcile eventually returns (unless the context
\* is cancelled or Shutdown is called a second time meanwhile).
C4_ShutdownEndsLoop ==
  (extCalls = 1 /\ pc["ext"] = "idle" /\ ~ctxDone)
    ~> (pc["loop"] = "returned" \/ ctxDone \/ extCalls > 1)

\* C4 witness: the loop has returned after the owner's single Shutdown, the
\* context never cancelled.
C4_Witness ==
  /\ pc["loop"] = "returned"
  /\ extCalls = 1
  /\ pc["ext"] = "idle"
  /\ ~ctxDone

\* C5: once a call of Shutdown has returned, the loop starts no remote-store
\* call (FetchFiles, PostFile, PutFile).
C5_NoCallAfterShutdown ==
  [][shutdownReturned
       => ~(pc["loop"] \notin RemotePcs /\ pc'["loop"] \in RemotePcs)]_vars

\* C6: no consumer is inside mu.RLock() of GetTargets or Registered while the
\* loop has a remote-store call in flight.
C6_ReadersNeverWaitOnRemote ==
  ~(pc["rd"] \in RLockPcs /\ pc["loop"] \in RemotePcs)

\* C7 as amended: the record examined when the clock reads `now` is skipped if
\* lastSeen < now - unhealthyThreshold and appended unchanged if
\* lastSeen >= now - unhealthyThreshold (the boundary included); the
\* snapshot stored is the list so built.
C7_StalenessFilter ==
  [][/\ (pc["test"] = "rt_filter" /\ fetched # <<>> /\ fetched' = Tail(fetched))
          => /\ Head(fetched).lastSeen < now - UnhealthyThreshold
                  => healthyTargets' = healthyTargets
             /\ Head(fetched).lastSeen >= now - UnhealthyThreshold
                  => healthyTargets' = Append(healthyTargets, Head(fetched))
     /\ (pc["test"] = "rt_filter" /\ pc'["test"] = "idle")
          => targets' = healthyTargets]_vars

\* C7 as claimed: the record is skipped if lastSeen <= now - unhealthyThreshold
\* (the boundary included) and appended unchanged if
\* lastSeen > now - unhealthyThreshold.
C7_StalenessFilterAsClaimed ==
  [][(pc["test"] = "rt_filter" /\ fetched # <<>> /\ fetched' = Tail(fetched))
       => /\ Head(fetched).lastSeen <= now - UnhealthyThreshold
               => healthyTargets' = healthyTargets
          /\ Head(fetched).lastSeen > now - UnhealthyThreshold
               => healthyTargets' = Append(healthyTargets, Head(fetched))]_vars

\* C7 witness: a record at the boundary has just been kept, after a stale one
\* was skipped.
C7_Witness ==
  /\ pc["test"] = "rt_filter"
  /\ healthyTargets # <<>>
  /\ healthyTargets[Len(healthyTargets)].lastSeen = now - UnhealthyThreshold
  /\ fetched # <<>>
  /\ Head(fetched).lastSeen < now - UnhealthyThreshold

\* C8: from the call of refreshTargets until FetchFiles has failed, t.targets
\* does not change, and the failed refresh returns an error.
C8_FailedRefreshKeepsTargets ==
  [][(pc["test"] \in {"rt_lock", "rt_fetch"} /\ pc'["test"] # "rt_filter")
       => /\ targets' = targets
          /\ pc'["test"] = "idle"
               => lastErr' = [op |-> "refreshTargets", err |-> TRUE]]_vars

\* C8 witness: a refresh has failed while a non-empty snapshot was cached.
C8_Witness ==
  /\ pc["test"] = "idle"
  /\ lastErr = [op |-> "refreshTargets", err |-> TRUE]
  /\ targets # <<>>

\* C9: of the publishes that succeeded, the first is the create (PostFile)
\* and every later one an update (PutFile); registered is true exactly when
\* one has succeeded.
C9_CreateThenUpdate ==
  /\ \A i \in 1..Len(Succeeded) :
       Succeeded[i].op = IF i = 1 THEN "PostFile" ELSE "PutFile"
  /\ registered = (Succeeded # <<>>)

\* C9 witness: updateRegistration has succeeded twice and returned.
C9_Witness ==
  /\ pc["test"] = "idle"
  /\ Len(Succeeded) >= 2
  /\ lastErr = [op |-> "updateRegistration", err |-> FALSE]
  /\ registered

\* C10: a failed publish is followed by a publish of the same kind (a failed
\* create by a create, a failed update by an update); after a failed create
\* registered is false, after a failed update it is true, and the operation
\* has returned the error.
C10_FailureKeepsRegistered ==
  /\ \A i \in 1..Len(calls) - 1 : calls[i].err => calls[i + 1].op = calls[i].op
  /\ (calls # <<>> /\ calls[Len(calls)].err)
       => /\ registered = (calls[Len(calls)].op = "PutFile")
          /\ pc["test"] = "idle"
               => lastErr = [op |-> "updateRegistration", err |-> TRUE]

\* C10 witness: a create failed and was retried as a create, and an update
\* has failed.
C10_Witness ==
  /\ pc["test"] = "idle"
  /\ \E i \in 1..Len(calls) - 1 : calls[i] = [op |-> "PostFile", err |-> TRUE]
  /\ calls[Len(calls)] = [op |-> "PutFile", err |-> TRUE]

\* C11: registered becomes true only when a PostFile succeeds and false only
\* when Shutdown writes it; once Shutdown has written it, it stays false, and
\* it is false when Reconcile has returned.
C11_RegisteredLifecycle ==
  [][/\ (~registered /\ registered')
          => \E t \in Threads : pc[t] = "ur_post" /\ pc'[t] # "ur_post"
     /\ (registered /\ ~registered')
          => \E t \in Threads : pc[t] = "sd_lock" /\ pc'[t] = "sd_send"
     /\ ((shutdownReturned \/ \E t \in Threads : pc[t] = "sd_send")
           /\ ~registered) => ~registered'
     /\ pc'["loop"] = "returned" => ~registered']_vars

\* Positions inside refreshTargets, from the call to the return.
RefreshPcs == {"rt_lock", "rt_fetch", "rt_filter"}
\* Positions inside updateRegistration, from the call to the return.
RegistrationPcs ==
  {"ur_entry", "ur_registered", "ur_put_lock", "ur_post_lock", "ur_put",
   "ur_post"}

\* C12: at most one remote-store call is in flight at any time, and whoever
\* is in flight holds the exclusive lock; the loop is never inside a refresh
\* and a registration at once, also when both timers have fired.
C12_OneRemoteCall ==
  /\ Cardinality({t \in Threads : pc[t] \in RemotePcs}) <= 1
  /\ \A t \in Threads : pc[t] \in RemotePcs => muW = t
  /\ ~(pc["loop"] \in RefreshPcs /\ pc["loop"] \in RegistrationPcs)

\* Both timers have fired, the loop is in the remote call of the registration
\* and a second caller waits in mu.Lock() of a refresh.
C12_Witness ==
  /\ pc["loop"] \in {"ur_put", "ur_post"}
  /\ checkTimer = "fired"
  /\ pc["test"] = "rt_lock"

\* C13: t.targets changes only in the one assignment that ends a refresh,
\* made to the completely filtered list while no GetTargets holds the lock;
\* and a GetTargets that reads t.targets does so while no refresh is between
\* its Lock and its Unlock. So a reader during a refresh gets the complete
\* list from before it or the complete list from after it.
C13_SnapshotIsolation ==
  [][/\ targets' # targets
          => /\ muR = {}
             /\ fetched = <<>>
             /\ targets' = healthyTargets
             /\ \E t \in Threads : pc[t] = "rt_filter" /\ muW = t
     /\ \A r \in Threads :
          (pc[r] = "gt_read" /\ pc'[r] = "idle")
            => /\ targets' = targets
               /\ muW = NoThread
               /\ \A t \in Threads : pc[t] \notin {"rt_fetch", "rt_filter"}
    ]_vars

\* A GetTargets has been called while a refresh is building a list that
\* differs from the current one.
C13_Witness ==
  /\ pc["rd"] = "gt_rlock"
  /\ pc["loop"] = "rt_filter"
  /\ healthyTargets # targets

\* C14: an invocation of Shutdown that follows another one returns without
\* blocking: it never stands at the send with the done channel still full
\* of the earlier invocation's signal.
C14_SecondShutdownReturns ==
  \A t \in Threads : ~(pc[t] = "sd_send" /\ done = DoneCap)

\* C15: the Reconcile loop invokes Shutdown at most once.
C15_LoopShutsDownOnce == loopShutdowns <= 1

\* The loop stands in a Shutdown that cannot finish: the done channel is full
\* and the loop is the one that would receive from it.
LoopStuckInShutdown == pc["loop"] = "sd_send" /\ done = DoneCap

\* C16: a failed refresh leaves the loop at the select with the registration
\* timer as it was, and a failed registration leaves it there with the
\* refresh timer as it was; and with one trigger dead after its failure, the
\* other trigger, once fired, is handled, unless the loop ends or is on its
\* way out through Shutdown.
C16_FailureDoesNotStallOther ==
  /\ [][/\ (pc["loop"] = "rt_fetch" /\ pc'["loop"] \notin {"rt_fetch", "rt_filter"})
             => pc'["loop"] = "select" /\ registrationTimer' = registrationTimer
        /\ (/\ pc["loop"] \in {"ur_put", "ur_post"}
            /\ pc'["loop"] # pc["loop"]
            /\ calls'[Len(calls')].err)
             => pc'["loop"] = "select" /\ checkTimer' = checkTimer]_vars
  /\ (pc["loop"] = "select" /\ checkTimer = "idle" /\ registrationTimer = "fired")
       ~> (pc["loop"] \in {"ur_entry", "sd_lock", "returned"} \/ LoopStuckInShutdown)
  /\ (pc["loop"] = "select" /\ registrationTimer = "idle" /\ checkTimer = "fired")
       ~> (pc["loop"] \in {"rt_lock", "sd_lock", "returned"} \/ LoopStuckInShutdown)

\* The loop handles the registration timer after a refresh has failed (the
\* refresh timer was consumed and not reset, and the refresh is over).
C16_Witness ==
  /\ checkTimer = "idle"
  /\ pc["loop"] = "ur_entry"

\* C17: the assignment that ends a successful refresh sets t.targets to
\* exactly the records of the store's answer for which now - lastSeen <=
\* unhealthyThreshold, now being the clock value read for the record, in the
\* answer's order and unchanged, whatever t.targets held before.
C17_ExactlyTheFreshRecords ==
  [][\A t \in Threads :
       (pc[t] = "rt_filter" /\ pc'[t] # "rt_filter")
         => LET fresh(i) == readAt[i] - answer[i].lastSeen <= UnhealthyThreshold
                idx == SelectSeq([i \in 1..Len(answer) |-> i], fresh)
            IN /\ Len(readAt) = Len(answer)
               /\ targets' = [k \in 1..Len(idx) |-> answer[idx[k]]]
    ]_vars

\* A refresh is about to replace a list holding one peer by a list holding
\* another: of the two records the store returned, the peer that was absent
\* is fresh and re-admitted, the peer that was present is stale and goes.
C17_Witness ==
  /\ pc["test"] = "rt_filter"
  /\ fetched = <<>>
  /\ Len(answer) = 2
  /\ Len(targets) = 1
  /\ Len(healthyTargets) = 1
  /\ targets[1].url # healthyTargets[1].url

\* C18: every acquisition of the exclusive lock is followed by its release.
C18_LockAlwaysReleased ==
  \A t \in Threads : (muW = t) ~> (muW # t)

\* C19: every step that reads or writes t.targets or t.registered is taken
\* by a thread that holds t.mu: a write changes the field only in a step of
\* the exclusive holder, GetTargets and Registered read as shared holders,
\* and the read of t.registered at the entry of updateRegistration is made
\* by a holder too.
C19_AccessUnderLock ==
  [][/\ registered' # registered => (muW # NoThread \/ muW' # NoThread)
     /\ targets' # targets => muW # NoThread
     /\ \A t \in Threads :
          /\ (pc[t] \in {"gt_read", "rg_read"} /\ pc'[t] # pc[t]) => t \in muR
          /\ (pc[t] = "ur_entry" /\ pc'[t] # pc[t]) => (muW = t \/ t \in muR)
    ]_vars

\* C20: PutFile is called only while registered is true, and PostFile only
\* while registered is false.
C20_PublishMatchesRegistered ==
  \A t \in Threads :
    /\ pc[t] = "ur_put" => registered
    /\ pc[t] = "ur_post" => ~registered

\* C21: once Reconcile has returned, a second call of it on the instance
\* makes no remote-store call and changes neither t.targets nor t.registered.
C21_NotRestartable ==
  [][runs' >= 2
       => /\ pc'["loop"] \notin RemotePcs
          /\ targets' = targets
          /\ registered' = registered]_vars

====
